---- MODULE Spec2Model ----
(***************************************************************************)
(* Model of the stock-analysis dashboard: the submit handler, the progress *)
(* estimator and the state record of src/App.tsx, the response handling of *)
(* analyzeStocks in src/services/geminiService.ts, and the DCF figures of  *)
(* src/components/AnalysisDashboard.tsx.  What the dashboard shows is      *)
(* followed in SpecDashboard only, where the results carry DCF fields; the *)
(* other specifications keep a result opaque and leave dashboard as it is. *)
(*                                                                         *)
(* A JavaScript string is a sequence of one-character strings.  Time is in *)
(* milliseconds.  A progress value is kept in thousandths of a percent, so *)
(* that (elapsed / duration) * 90 is exact: Milli(5) is the value 5.       *)
(***************************************************************************)
EXTENDS Integers, Sequences, FiniteSets, TLC

VARIABLES
    input,             \* App.tsx:8   the text field
    state,             \* App.tsx:9   the AnalysisState record
    progressInterval,  \* App.tsx:17  the ref holding a timer id, 0 for null
    timers,            \* the window's active setInterval timers
    requests,          \* analyzeStocks calls awaiting the remote service
    timeouts,          \* pending setTimeout callbacks of App.tsx:71
    now,               \* Date.now()
    mounted,           \* FALSE once the component is torn down
    calls,             \* number of analyzeStocks calls made so far
    lastEvent,         \* the event handled by the last step
    reply,             \* what the remote service answered to the call of this cycle
    returned,          \* what analyzeStocks returned or threw for that answer
    dataFrom,          \* the call whose results state.data holds, 0 for none
    dashboard          \* AnalysisDashboard.tsx:9 with what the component shows

vars == <<input, state, progressInterval, timers, requests, timeouts, now,
          mounted, calls, lastEvent, reply, returned, dataFrom, dashboard>>

-----------------------------------------------------------------------------
(* Bounds of the model *)

MaxCalls == 2
MaxInputLen == 5
MaxChunks == 6
MaxResults == 2

(* Numbers of the program *)

ProgressStart == 5
ProgressCap == 95
ProgressRamp == 90
ProgressDone == 100
Duration == 10000
IntervalMs == 100
SuccessDelay == 400
MaxSources == 5

Milli(p) == p * 1000

Min(a, b) == IF a < b THEN a ELSE b
Max(a, b) == IF a > b THEN a ELSE b

-----------------------------------------------------------------------------
(* JavaScript values *)

Null == "<null>"
Undefined == "<undefined>"

\* JavaScript truthiness of a string-or-undefined value (the left side of ||)
Truthy(x) == x # Undefined /\ x # Null /\ x # ""

NullData == [null |-> TRUE, list |-> <<>>]
DataOf(l) == [null |-> FALSE, list |-> l]

-----------------------------------------------------------------------------
(* Strings: input.trim(), input.split(/[, \s]+/), toUpperCase *)

IsWhite(c) == c \in {" ", "\t"}

\* the character class [, \s]
IsSep(c) == c = "," \/ IsWhite(c)

RECURSIVE TrimStart(_)
TrimStart(s) ==
    IF s = <<>> THEN <<>>
    ELSE IF IsWhite(Head(s)) THEN TrimStart(Tail(s)) ELSE s

RECURSIVE TrimEnd(_)
TrimEnd(s) ==
    IF s = <<>> THEN <<>>
    ELSE IF IsWhite(s[Len(s)]) THEN TrimEnd(SubSeq(s, 1, Len(s) - 1)) ELSE s

Trim(s) == TrimEnd(TrimStart(s))

LowerLetters ==
    <<"a", "b", "c", "d", "e", "f", "g", "h", "i", "j", "k", "l", "m",
      "n", "o", "p", "q", "r", "s", "t", "u", "v", "w", "x", "y", "z">>

UpperLetters ==
    <<"A", "B", "C", "D", "E", "F", "G", "H", "I", "J", "K", "L", "M",
      "N", "O", "P", "Q", "R", "S", "T", "U", "V", "W", "X", "Y", "Z">>

UpperChar(c) ==
    IF \E i \in 1..Len(LowerLetters) : LowerLetters[i] = c
    THEN UpperLetters[CHOOSE i \in 1..Len(LowerLetters) : LowerLetters[i] = c]
    ELSE c

ToUpperCase(s) == [i \in 1..Len(s) |-> UpperChar(s[i])]

\* index of the first character at or after i that is no separator
RECURSIVE SkipSeps(_, _)
SkipSeps(s, i) ==
    IF i > Len(s) THEN i
    ELSE IF IsSep(s[i]) THEN SkipSeps(s, i + 1) ELSE i

\* String.prototype.split with the separator /[, \s]+/: the pieces between
\* the maximal runs of separators, an empty piece at either end included
RECURSIVE SplitFrom(_, _, _)
SplitFrom(s, i, piece) ==
    IF i > Len(s) THEN <<piece>>
    ELSE IF IsSep(s[i]) THEN <<piece>> \o SplitFrom(s, SkipSeps(s, i), <<>>)
    ELSE SplitFrom(s, i + 1, Append(piece, s[i]))

Split(s) == SplitFrom(s, 1, <<>>)

TrimUpper(t) == ToUpperCase(Trim(t))

NonEmptyStr(t) == Len(t) > 0

ParseTickers_NoUpper(inp) ==
    SelectSeq([i \in 1..Len(Split(inp)) |-> Trim(Split(inp)[i])], NonEmptyStr)

\* App.tsx:56
ParseTickers(inp) ==
    SelectSeq([i \in 1..Len(Split(inp)) |-> TrimUpper(Split(inp)[i])], NonEmptyStr)

InputRejected_None(inp) == FALSE

\* App.tsx:53 and App.tsx:57: the two early returns of handleSearch
InputRejected(inp) == Trim(inp) = <<>> \/ Len(ParseTickers(inp)) = 0

-----------------------------------------------------------------------------
(* The remote service's answer and analyzeStocks *)

\* a response of ai.models.generateContent, by what response.text holds:
\*   "absent"             no text payload
\*   "unparseable"        text that JSON.parse rejects
\*   "null"               the JSON text null
\*   "no_results"         a JSON object without a results member
\*   "results_not_array"  a JSON object whose results member is no array
\*   "results_array"      a JSON object whose results member is an array
TextKinds == {"absent", "unparseable", "null", "no_results",
              "results_not_array", "results_array"}

MsgEmptyResponse == "Empty response from AI"
MsgSyntaxError == "Unexpected token in JSON"
MsgNullResults == "Cannot read properties of null (reading 'results')"
MsgUndefinedMap == "Cannot read properties of undefined (reading 'map')"
MsgMapNotFunction == "stocks.map is not a function"
MsgNoData == "No valid financial data found for the provided tickers."
MsgFallback == "Financial analysis engine encountered an error. Please verify the tickers."
PlaceholderTitle == "Market Source"
NoLink == "#"

Thrown(m) == [kind |-> "throw", value |-> <<>>, message |-> m]
Value(v) == [kind |-> "value", value |-> v, message |-> Null]
NothingReturned == [kind |-> "none", value |-> <<>>, message |-> Null]

\* geminiService.ts:113-116, the callback of map
ToSource(chunk) ==
    [title |-> IF Truthy(chunk.title) THEN chunk.title ELSE PlaceholderTitle,
     uri |-> IF Truthy(chunk.uri) THEN chunk.uri ELSE NoLink]

HasLink(s) == s.uri # NoLink

\* geminiService.ts:113-116
GlobalSources(response) ==
    IF response.hasGrounding
    THEN SelectSeq([i \in 1..Len(response.groundingChunks) |->
                       ToSource(response.groundingChunks[i])], HasLink)
    ELSE <<>>

Slice_All(s, n) == s

\* Array.prototype.slice(0, n)
Slice(s, n) == SubSeq(s, 1, Min(n, Len(s)))

\* geminiService.ts:118-121: { ...stock, sources }; the spread of a value that
\* is no object has no members
WithSources(stock, sources) ==
    [stock |-> IF stock = "not_a_record" THEN "{}" ELSE stock, sources |-> sources]

\* geminiService.ts:118-121
AttachSources(stocks, sources) ==
    [i \in 1..Len(stocks) |-> WithSources(stocks[i], Slice(sources, MaxSources))]

ParseFails_Lenient(text) == FALSE

\* geminiService.ts:109-110 and 118: JSON.parse throws, or parsed.results or
\* stocks.map does
ParseFails(text) == text \in {"unparseable", "null", "no_results", "results_not_array"}

ParseMessage(text) ==
    CASE text = "unparseable" -> MsgSyntaxError
      [] text = "null" -> MsgNullResults
      [] text = "no_results" -> MsgUndefinedMap
      [] OTHER -> MsgMapNotFunction

analyzeStocks_SwallowsErrors(response) ==
    IF response.text = "absent" \/ ParseFails(response.text) THEN Value(<<>>)
    ELSE Value(AttachSources(response.results, GlobalSources(response)))

\* geminiService.ts:106-125, after generateContent has resolved
analyzeStocks(response) ==
    IF response.text = "absent" THEN Thrown(MsgEmptyResponse)
    ELSE IF ParseFails(response.text) THEN Thrown(ParseMessage(response.text))
    ELSE Value(AttachSources(response.results, GlobalSources(response)))

\* geminiService.ts:122-125: a rejection of generateContent is rethrown as it is
Rethrown(message) == Thrown(message)

-----------------------------------------------------------------------------
(* The state record and its updates *)

IdleState ==
    [loading |-> FALSE, progress |-> 0, error |-> Null, data |-> NullData,
     step |-> "idle"]

\* setState has no effect once the component is unmounted
SetState(new) == IF mounted THEN new ELSE state

ProcessingState_KeepsPrior ==
    [state EXCEPT !.loading = TRUE, !.progress = Milli(ProgressStart),
                  !.step = "processing"]

\* App.tsx:59 followed by App.tsx:26
ProcessingState ==
    [loading |-> TRUE, progress |-> Milli(ProgressStart), error |-> Null,
     data |-> NullData, step |-> "processing"]

\* App.tsx:72-78
SuccessState(results) ==
    [loading |-> FALSE, progress |-> Milli(ProgressDone), error |-> Null,
     data |-> DataOf(results), step |-> "idle"]

FailedState_NoFallback(message) ==
    [loading |-> FALSE, progress |-> 0, error |-> message, data |-> NullData,
     step |-> "idle"]

FailedState_AlwaysGeneric(message) ==
    [loading |-> FALSE, progress |-> 0, error |-> MsgFallback, data |-> NullData,
     step |-> "idle"]

\* App.tsx:84-90
FailedState(message) ==
    [loading |-> FALSE, progress |-> 0,
     error |-> IF Truthy(message) THEN message ELSE MsgFallback,
     data |-> NullData, step |-> "idle"]

TickProgress_NoMax(prev, elapsed) ==
    IF prev >= Milli(ProgressCap) THEN prev
    ELSE Min(Milli(ProgressCap), Milli(elapsed * ProgressRamp) \div Duration)

\* App.tsx:34-42, the updater of the interval callback
TickProgress(prev, elapsed) ==
    IF prev >= Milli(ProgressCap) THEN prev
    ELSE Max(prev, Min(Milli(ProgressCap), Milli(elapsed * ProgressRamp) \div Duration))

ClearInterval_Forgotten(id) == timers

\* window.clearInterval behind "if (progressInterval.current)"
ClearInterval(id) == IF id # 0 THEN {t \in timers : t.id # id} ELSE timers

\* App.tsx:145
InputDisabled == state.loading

ButtonDisabled_IgnoresLoading == Trim(input) = <<>>

\* App.tsx:149
ButtonDisabled == state.loading \/ Trim(input) = <<>>

Event(name, accepted) ==
    [name |-> name, accepted |-> accepted,
     wasLoading |-> name = "submit" /\ state.loading]

-----------------------------------------------------------------------------
(* The dashboard: the DCF figures of AnalysisDashboard.tsx *)

\* a JavaScript number is kept in thousandths; a field the payload lacks
\* reads as undefined
Number(m) == [defined |-> TRUE, milli |-> m]
Missing == [defined |-> FALSE, milli |-> 0]

\* JavaScript truthiness of a number-or-undefined value (the left side of &&)
TruthyNumber(v) == v.defined /\ v.milli # 0

\* x.toFixed(2) in hundredths and x.toFixed(1) in tenths, the nearest one,
\* for x in thousandths
ToFixed2(m) == IF m >= 0 THEN (m + 5) \div 10 ELSE -((5 - m) \div 10)
ToFixed1(m) == IF m >= 0 THEN (m + 50) \div 100 ELSE -((50 - m) \div 100)

DcfAvailable_NonZero(v) == TruthyNumber(v)

\* AnalysisDashboard.tsx:41 and AnalysisDashboard.tsx:203, the condition
DcfAvailable(v) == TruthyNumber(v) /\ v.milli > 0

TextDcfNA == "DCF N/A (Negative/Unpredictable FCF)"
TextTileNA == "N/A"
TextDcfFigures == "DCF Value: $ | Margin: %"
TextTileFigure == "$"

\* AnalysisDashboard.tsx:40-52: the text of the matrix row with the figures
\* set into it, the intrinsic value in cents and the margin in tenths of a
\* percent
renderDCFInfo(quality) ==
    IF DcfAvailable(quality.dcfIntrinsicValue)
    THEN [text |-> TextDcfFigures,
          figures |-> <<ToFixed2(quality.dcfIntrinsicValue.milli),
                        ToFixed1(quality.dcfMarginOfSafety.milli * 100)>>,
          class |-> IF quality.dcfMarginOfSafety.milli * 100 > 0
                    THEN "text-emerald-400" ELSE "text-rose-400"]
    ELSE [text |-> TextDcfNA, figures |-> <<>>, class |-> "text-slate-600"]

\* AnalysisDashboard.tsx:203: the value of the DCF Intrinsic tile
DcfTile(quality) ==
    IF DcfAvailable(quality.dcfIntrinsicValue)
    THEN [text |-> TextTileFigure,
          figures |-> <<ToFixed2(quality.dcfIntrinsicValue.milli)>>,
          class |-> "text-slate-400"]
    ELSE [text |-> TextTileNA, figures |-> <<>>, class |-> "text-slate-400"]

NothingShown == [text |-> "", figures |-> <<>>, class |-> ""]

\* the dashboard while App.tsx:224 does not render it
NoDashboard ==
    [shown |-> FALSE, activeIndex |-> 0, dcfInfo |-> NothingShown,
     dcfTile |-> NothingShown]

\* AnalysisDashboard.tsx:10-14 with lines 132 and 203: what the component
\* shows of stocks[activeIndex], indexes counted from 0
RenderDashboard(stocks, activeIndex) ==
    IF activeIndex + 1 > Len(stocks)
    THEN [NoDashboard EXCEPT !.activeIndex = activeIndex]
    ELSE [shown |-> TRUE, activeIndex |-> activeIndex,
          dcfInfo |-> renderDCFInfo(stocks[activeIndex + 1].stock.quality),
          dcfTile |-> DcfTile(stocks[activeIndex + 1].stock.quality)]

-----------------------------------------------------------------------------
(* What the user types and what the remote service answers *)

Str_ab == <<"a", ",", " ", "b">>
Str_blank == <<" ", "\t">>
Str_commas == <<",", ",">>

TypedInputs == {<<>>, Str_blank, Str_commas, Str_ab}

\* App.tsx:184 and App.tsx:188
Presets ==
    {<<"A", "A", "P", "L", ",", " ", "N", "V", "D", "A", ",", " ", "M", "S", "F", "T">>,
     <<"T", "S", "L", "A", ",", " ", "R", "I", "V", "N", ",", " ", "L", "C", "I", "D">>}

SeqsUpTo(S, n) == UNION {[1..k -> S] : k \in 0..n}

NoResponse ==
    [text |-> "absent", results |-> <<>>, hasGrounding |-> FALSE,
     groundingChunks |-> <<>>]

ChunkReuters == [title |-> "Reuters", uri |-> "u1"]
ChunkUntitled == [title |-> Undefined, uri |-> "u2"]
ChunkEmptyTitle == [title |-> "", uri |-> "u3"]
ChunkNoUri == [title |-> "Blog", uri |-> Undefined]
ChunkNoWeb == [title |-> Undefined, uri |-> Undefined]

ChunkKinds == {ChunkReuters, ChunkUntitled, ChunkEmptyTitle, ChunkNoUri, ChunkNoWeb}

FailingResponses ==
    {[NoResponse EXCEPT !.text = k] : k \in TextKinds \ {"results_array"}}

\* responses whose text is a JSON object with a results array; one without
\* grounding metadata has no chunks
ListResponses(resultLists, chunkSeqs) ==
    {[text |-> "results_array", results |-> rs, hasGrounding |-> TRUE,
      groundingChunks |-> cs] : rs \in resultLists, cs \in chunkSeqs}
      \cup {[text |-> "results_array", results |-> rs, hasGrounding |-> FALSE,
              groundingChunks |-> <<>>] : rs \in resultLists}

\* the answers drawn in the specification of the whole component
Responses ==
    FailingResponses
      \cup ListResponses(SeqsUpTo({"stock_a"}, MaxResults), {<<ChunkUntitled, ChunkNoUri>>})

\* the answers drawn in the specification of the directly invoked handler
HandlerResponses ==
    {[NoResponse EXCEPT !.text = "unparseable"]}
      \cup ListResponses({<<"stock_a">>}, {})

\* the answers drawn in the specification of analyzeStocks alone
AllResponses ==
    FailingResponses
      \cup ListResponses(SeqsUpTo({"stock_a", "stock_b", "not_a_record"}, MaxResults), {<<>>})
      \cup ListResponses({<<"stock_a", "stock_b">>}, SeqsUpTo(ChunkKinds, MaxChunks))

\* the characters typed in the specification of the ticker parsing alone
Alphabet == {"a", "B", ",", " ", "\t"}

\* the example of the documentation: " aapl,  nvda ,tsla"
ExampleInput ==
    <<" ", "a", "a", "p", "l", ",", " ", " ", "n", "v", "d", "a", " ", ",",
      "t", "s", "l", "a">>

AllInputs == SeqsUpTo(Alphabet, MaxInputLen) \cup {ExampleInput}

RejectMessages == {Undefined, "", "Failed to fetch"}

NoReply == [kind |-> "none", message |-> Null, response |-> NoResponse]
Resolved(response) == [kind |-> "resolved", message |-> Null, response |-> response]
Rejected(message) == [kind |-> "rejected", message |-> message, response |-> NoResponse]

-----------------------------------------------------------------------------
(* Initial state: the component as constructed, App.tsx:8-17 *)

Init ==
    /\ input = <<>>
    /\ state = IdleState
    /\ progressInterval = 0
    /\ timers = {}
    /\ requests = {}
    /\ timeouts = {}
    /\ now = 0
    /\ mounted = TRUE
    /\ calls = 0
    /\ lastEvent = [name |-> "init", accepted |-> FALSE, wasLoading |-> FALSE]
    /\ reply = NoReply
    /\ returned = NothingReturned
    /\ dataFrom = 0
    /\ dashboard = NoDashboard

-----------------------------------------------------------------------------
(* Actions *)

\* App.tsx:143, onChange of the text field
SetInput(s) ==
    /\ mounted
    /\ ~InputDisabled
    /\ input' = s
    /\ lastEvent' = Event("input", TRUE)
    /\ UNCHANGED <<state, progressInterval, timers, requests, timeouts, now,
                   mounted, calls, reply, returned, dataFrom, dashboard>>

\* App.tsx:182-192, the preset buttons
PresetClick(s) ==
    /\ mounted
    /\ ~state.loading
    /\ state.data.null
    /\ input' = s
    /\ lastEvent' = Event("preset", TRUE)
    /\ UNCHANGED <<state, progressInterval, timers, requests, timeouts, now,
                   mounted, calls, reply, returned, dataFrom, dashboard>>

StartProgressSimulation_NoClear(id) ==
    timers \cup {[id |-> id, startTime |-> now]}

\* App.tsx:25-44: the timers left after startProgressSimulation
StartProgressSimulation(id) ==
    ClearInterval(progressInterval) \cup {[id |-> id, startTime |-> now]}

\* App.tsx:51-63, up to the await
handleSearch ==
    IF InputRejected(input)
    THEN /\ lastEvent' = Event("submit", FALSE)
         /\ UNCHANGED <<input, state, progressInterval, timers, requests, timeouts,
                        now, mounted, calls, reply, returned, dataFrom, dashboard>>
    ELSE /\ calls < MaxCalls
         /\ state' = SetState(ProcessingState)
         /\ timers' = StartProgressSimulation(calls + 1)
         /\ progressInterval' = calls + 1
         /\ requests' = requests \cup {[id |-> calls + 1, tickers |-> ParseTickers(input)]}
         /\ calls' = calls + 1
         /\ dataFrom' = IF mounted THEN 0 ELSE dataFrom
         /\ reply' = NoReply
         /\ returned' = NothingReturned
         /\ lastEvent' = Event("submit", TRUE)
         /\ UNCHANGED <<input, timeouts, now, mounted, dashboard>>

\* the user presses the submit button, App.tsx:147-150: a disabled button
\* dispatches no submit event
SubmitAttempt ==
    /\ mounted
    /\ IF ButtonDisabled
       THEN /\ lastEvent' = Event("submit", FALSE)
            /\ UNCHANGED <<input, state, progressInterval, timers, requests, timeouts,
                           now, mounted, calls, reply, returned, dataFrom, dashboard>>
       ELSE handleSearch

\* a submit event dispatched at the form whatever the button's state,
\* App.tsx:135
FormSubmitEvent ==
    /\ mounted
    /\ handleSearch

\* time passes: Date.now() reaches t
AdvanceClock(t) ==
    /\ t > now
    /\ now' = t
    /\ lastEvent' = Event("clock", TRUE)
    /\ UNCHANGED <<input, state, progressInterval, timers, requests, timeouts,
                   mounted, calls, reply, returned, dataFrom, dashboard>>

Ticked_GivesUpAtCap(t) ==
    IF state.progress >= Milli(ProgressCap)
    THEN [state EXCEPT !.loading = FALSE, !.step = "idle"]
    ELSE [state EXCEPT !.progress = TickProgress(@, now - t.startTime)]

\* App.tsx:34-42, the updater of the interval callback
Ticked(t) == [state EXCEPT !.progress = TickProgress(@, now - t.startTime)]

\* App.tsx:33-43, the interval callback of timer t
Tick(t) ==
    /\ t \in timers
    /\ now - t.startTime >= IntervalMs
    /\ state' = SetState(Ticked(t))
    /\ lastEvent' = Event("tick", TRUE)
    /\ UNCHANGED <<input, progressInterval, timers, requests, timeouts, now,
                   mounted, calls, reply, returned, dataFrom, dashboard>>

EmptyResults_Never(results) == FALSE

\* App.tsx:65
EmptyResults(results) == Len(results) = 0

FinishProgress_KeepsProgress == state

\* App.tsx:48
FinishProgress == [state EXCEPT !.progress = Milli(ProgressDone)]

\* App.tsx:63-91, from the await on: request r settles with outcome out
Continue(r, rep, out) ==
    /\ r \in requests
    /\ requests' = requests \ {r}
    /\ reply' = rep
    /\ returned' = out
    /\ timers' = ClearInterval(progressInterval)
    /\ IF out.kind = "value" /\ ~EmptyResults(out.value)
       THEN /\ state' = SetState(FinishProgress)
            /\ timeouts' = timeouts \cup {[req |-> r.id, results |-> out.value,
                                           due |-> now + SuccessDelay]}
       ELSE /\ state' = SetState(FailedState(IF out.kind = "value" THEN MsgNoData
                                                                  ELSE out.message))
            /\ UNCHANGED timeouts
    /\ dataFrom' = IF mounted /\ ~(out.kind = "value" /\ ~EmptyResults(out.value))
                   THEN 0 ELSE dataFrom
    /\ lastEvent' = Event("settle", TRUE)
    /\ UNCHANGED <<input, progressInterval, now, mounted, calls, dashboard>>

\* generateContent resolves with a response, geminiService.ts:95-121
GenerateContentResolves(r, response) ==
    Continue(r, Resolved(response), analyzeStocks(response))

\* generateContent rejects, geminiService.ts:122-125
GenerateContentRejects(r, message) ==
    Continue(r, Rejected(message), Rethrown(message))

\* App.tsx:71-79, the callback of setTimeout
TimeoutFires(t) ==
    /\ t \in timeouts
    /\ now >= t.due
    /\ timeouts' = timeouts \ {t}
    /\ state' = SetState(SuccessState(t.results))
    /\ dataFrom' = IF mounted THEN t.req ELSE dataFrom
    /\ lastEvent' = Event("timeout", TRUE)
    /\ UNCHANGED <<input, progressInterval, timers, requests, now, mounted, calls,
                   reply, returned, dashboard>>

Dismissed_EmptyString == [state EXCEPT !.error = ""]

\* App.tsx:216, the updater of the Clear Faults button
Dismissed == [state EXCEPT !.error = Null]

\* App.tsx:215-220, the Clear Faults button, rendered while state.error is set
DismissError ==
    /\ mounted
    /\ state.error # Null
    /\ state' = Dismissed
    /\ lastEvent' = Event("dismiss", TRUE)
    /\ UNCHANGED <<input, progressInterval, timers, requests, timeouts, now,
                   mounted, calls, reply, returned, dataFrom, dashboard>>

\* App.tsx:19-23, the effect's cleanup
Unmount ==
    /\ mounted
    /\ mounted' = FALSE
    /\ timers' = ClearInterval(progressInterval)
    /\ lastEvent' = Event("unmount", TRUE)
    /\ UNCHANGED <<input, state, progressInterval, requests, timeouts, now, calls,
                   reply, returned, dataFrom, dashboard>>

\* App.tsx:224-226: the dashboard is rendered for the results held, with
\* the first stock selected, AnalysisDashboard.tsx:11
MountDashboard ==
    /\ mounted
    /\ ~dashboard.shown
    /\ ~state.data.null /\ ~state.loading
    /\ dashboard' = RenderDashboard(state.data.list, 0)
    /\ lastEvent' = Event("render", TRUE)
    /\ UNCHANGED <<input, state, progressInterval, timers, requests, timeouts, now,
                   mounted, calls, reply, returned, dataFrom>>

\* AnalysisDashboard.tsx:57-62, the tab of stock idx
SetActiveIndex(idx) ==
    /\ mounted
    /\ dashboard.shown
    /\ Len(state.data.list) > 1
    /\ idx \in 0..(Len(state.data.list) - 1)
    /\ dashboard' = RenderDashboard(state.data.list, idx)
    /\ lastEvent' = Event("tab", TRUE)
    /\ UNCHANGED <<input, state, progressInterval, timers, requests, timeouts, now,
                   mounted, calls, reply, returned, dataFrom>>

\* the instants at which the clock is read
TimePoints == {500, 5000, 11000, 22000}

\* what happens without the user: the clock, the timers, the remote service
\* answering from the given sets, and the teardown
Environment(responses, messages) ==
    \/ \E t \in TimePoints : AdvanceClock(t)
    \/ \E t \in timers : Tick(t)
    \/ \E r \in requests : \E response \in responses : GenerateContentResolves(r, response)
    \/ \E r \in requests : \E m \in messages : GenerateContentRejects(r, m)
    \/ \E t \in timeouts : TimeoutFires(t)
    \/ Unmount

\* what the user does to the text field and the error panel
UserEdits ==
    \/ \E s \in TypedInputs : SetInput(s)
    \/ \E s \in Presets : PresetClick(s)
    \/ DismissError

Next ==
    \/ UserEdits
    \/ SubmitAttempt
    \/ Environment(Responses, RejectMessages)

Spec == Init /\ [][Next]_vars

\* the component with the submit handler also invoked directly
NextHandler ==
    \/ UserEdits
    \/ SubmitAttempt
    \/ FormSubmitEvent
    \/ Environment(HandlerResponses, {"Failed to fetch"})

SpecHandler == Init /\ [][NextHandler]_vars

\* the ticker parsing alone: any text in the field, then one submit
InitTickers ==
    /\ input \in AllInputs
    /\ state = IdleState
    /\ progressInterval = 0
    /\ timers = {}
    /\ requests = {}
    /\ timeouts = {}
    /\ now = 0
    /\ mounted = TRUE
    /\ calls = 0
    /\ lastEvent = [name |-> "input", accepted |-> TRUE, wasLoading |-> FALSE]
    /\ reply = NoReply
    /\ returned = NothingReturned
    /\ dataFrom = 0
    /\ dashboard = NoDashboard

NextTickers == SubmitAttempt

SpecTickers == InitTickers /\ [][NextTickers]_vars

\* analyzeStocks alone: the state after one accepted submit of "a, b", then
\* any answer of the remote service
InitInFlight ==
    /\ input = Str_ab
    /\ state = ProcessingState
    /\ progressInterval = 1
    /\ timers = {[id |-> 1, startTime |-> 0]}
    /\ requests = {[id |-> 1, tickers |-> ParseTickers(Str_ab)]}
    /\ timeouts = {}
    /\ now = 0
    /\ mounted = TRUE
    /\ calls = 1
    /\ lastEvent = [name |-> "submit", accepted |-> TRUE, wasLoading |-> FALSE]
    /\ reply = NoReply
    /\ returned = NothingReturned
    /\ dataFrom = 0
    /\ dashboard = NoDashboard

NextAnalyze ==
    \/ AdvanceClock(500)
    \/ \E r \in requests : \E response \in AllResponses : GenerateContentResolves(r, response)
    \/ \E r \in requests : \E m \in RejectMessages : GenerateContentRejects(r, m)
    \/ \E t \in timeouts : TimeoutFires(t)

SpecAnalyze == InitInFlight /\ [][NextAnalyze]_vars

\* the dashboard alone: the state after one successful cycle whose results
\* carry any of the DCF values, then the rendering and the tabs
DcfValues == {Missing, Number(-12500), Number(0), Number(4), Number(150250)}
MarginValues == {Number(-250), Number(0), Number(301)}

Stocks ==
    {[ticker |-> "A",
      quality |-> [dcfIntrinsicValue |-> v, dcfMarginOfSafety |-> m]] :
        v \in DcfValues, m \in MarginValues}

StockLists == UNION {[1..k -> Stocks] : k \in 1..MaxResults}

\* geminiService.ts:118-121 for a response without grounding metadata
Analyzed(stocks) == [i \in 1..Len(stocks) |-> [stock |-> stocks[i], sources |-> <<>>]]

InitDashboard ==
    /\ input = Str_ab
    /\ \E stocks \in StockLists :
          /\ state = SuccessState(Analyzed(stocks))
          /\ returned = Value(Analyzed(stocks))
    /\ progressInterval = 1
    /\ timers = {}
    /\ requests = {}
    /\ timeouts = {}
    /\ now = 500
    /\ mounted = TRUE
    /\ calls = 1
    /\ lastEvent = [name |-> "timeout", accepted |-> TRUE, wasLoading |-> FALSE]
    /\ reply = NoReply
    /\ dataFrom = 1
    /\ dashboard = NoDashboard

NextDashboard ==
    \/ MountDashboard
    \/ \E idx \in 0..(MaxResults - 1) : SetActiveIndex(idx)

SpecDashboard == InitDashboard /\ [][NextDashboard]_vars

\* the state InitInFlight describes is one the component reaches
InFlightReached ==
    /\ input = Str_ab /\ state = ProcessingState /\ progressInterval = 1
    /\ timers = {[id |-> 1, startTime |-> 0]}
    /\ requests = {[id |-> 1, tickers |-> ParseTickers(Str_ab)]}
    /\ timeouts = {} /\ now = 0 /\ mounted /\ calls = 1
    /\ lastEvent = [name |-> "submit", accepted |-> TRUE, wasLoading |-> FALSE]
    /\ reply = NoReply /\ returned = NothingReturned /\ dataFrom = 0
    /\ dashboard = NoDashboard

-----------------------------------------------------------------------------
(* Claims *)

ExactlyOneOfErrorAndData == (state.error # Null) # (~state.data.null)

SubmitAccepted == lastEvent.name = "submit" /\ lastEvent.accepted

\* C1: at most one analysis request is in flight and at most one progress
\* timer runs; a request in flight means loading is set; and from a state
\* with loading set no step, a submit attempt included, calls analyzeStocks
\* or starts a timer.
C1_SingleRequestInFlight ==
    /\ [](/\ Cardinality(requests) <= 1
          /\ Cardinality(timers) <= 1
          /\ (requests # {} => state.loading))
    /\ [][state.loading =>
            /\ calls' = calls
            /\ requests' \subseteq requests
            /\ timers' \subseteq timers]_vars

\* C1 witness: the user pressed submit with tickers in the field while a
\* request was in flight, and nothing was issued.
C1_Witness ==
    /\ lastEvent = [name |-> "submit", accepted |-> FALSE, wasLoading |-> TRUE]
    /\ ~InputRejected(input)
    /\ Cardinality(requests) = 1
    /\ calls = 1

\* C2 as stated: in every state after a completed request cycle (a submit
\* was accepted and loading is false again) exactly one of error and data is
\* non-null; and while a cycle runs both are null.
C2_ExactlyOneAfterCycle ==
    /\ (mounted /\ calls > 0 /\ ~state.loading) => ExactlyOneOfErrorAndData
    /\ state.loading => (state.error = Null /\ state.data.null)

\* C2 amended: error and data are never both non-null; the step that ends a
\* cycle leaves exactly one of them non-null, and that lasts until the error
\* is dismissed or the next submit is accepted; an accepted submit sets both
\* to null, they stay null while loading, and data shown after a cycle is the
\* result of the latest call.
C2_ExactlyOneUntilDismissed ==
    /\ [](/\ ~(state.error # Null /\ ~state.data.null)
          /\ (state.loading => (state.error = Null /\ state.data.null))
          /\ (mounted /\ SubmitAccepted => (state.error = Null /\ state.data.null))
          /\ (~state.data.null => (dataFrom = calls /\ ~state.loading))
          /\ (mounted /\ calls > 0 /\ ~state.loading /\ ~ExactlyOneOfErrorAndData
                => state = IdleState))
    /\ [][(state.loading /\ ~state'.loading) => ExactlyOneOfErrorAndData']_vars
    /\ [][(~state.loading /\ ExactlyOneOfErrorAndData /\ ~ExactlyOneOfErrorAndData')
            => (lastEvent'.name = "dismiss"
                  \/ (lastEvent'.name = "submit" /\ lastEvent'.accepted))]_vars

\* C2 witness: a second cycle has completed with data, after a first one.
C2_Witness ==
    /\ calls = 2
    /\ lastEvent.name = "timeout"
    /\ ~state.loading
    /\ ~state.data.null
    /\ dataFrom = 2

AnalyzeReturned == lastEvent.name = "settle" /\ returned.kind = "value"

\* C3 as stated: when the request resolves, progress becomes exactly 100.
C3_ResolveSetsHundred ==
    (mounted /\ AnalyzeReturned) => state.progress = Milli(ProgressDone)

\* C3 amended: within a Processing episode progress never decreases and lies
\* between 5 and 95 while the request is in flight; when the request
\* resolves with a non-empty list progress becomes exactly 100 and stays
\* there through Success; when it resolves with an empty list or fails,
\* progress is reset to 0.
C3_ProgressRamp ==
    /\ [](/\ (state.loading /\ requests # {}
                => /\ state.progress >= Milli(ProgressStart)
                   /\ state.progress <= Milli(ProgressCap))
          /\ (mounted /\ AnalyzeReturned /\ returned.value # <<>>
                => state.progress = Milli(ProgressDone) /\ state.loading)
          /\ (mounted /\ lastEvent.name = "settle"
                /\ (returned.kind = "throw" \/ returned.value = <<>>)
                => state.progress = 0 /\ ~state.loading)
          /\ (~state.data.null => state.progress = Milli(ProgressDone)))
    /\ [][(state.loading /\ state'.loading) => state'.progress >= state.progress]_vars

\* C3 witness: a tick has raised progress to its ceiling of 95 while the
\* request is still in flight.
C3_Witness ==
    /\ lastEvent.name = "tick"
    /\ state.loading
    /\ requests # {}
    /\ state.progress = Milli(ProgressCap)

\* C4: at most one progress timer is active, and it is the one the ref
\* holds; an active timer belongs to a request still in flight, so that no
\* tick follows a known outcome; none is active once the component is torn
\* down, also when the request settles after the teardown.
C4_NoOrphanedTimer ==
    /\ Cardinality(timers) <= 1
    /\ \A t \in timers :
          /\ t.id = progressInterval
          /\ \E r \in requests : r.id = t.id
    /\ (~mounted => timers = {})
    /\ (lastEvent.name = "tick" => (requests # {} /\ mounted))

\* C4 witness: the component was torn down with a request in flight, the
\* request has settled since, and no timer is left.
C4_Witness ==
    /\ ~mounted
    /\ state.loading
    /\ lastEvent.name = "settle"
    /\ calls = 1
    /\ timers = {}

-----------------------------------------------------------------------------
ResolvedWith(kinds) ==
    /\ lastEvent.name = "settle"
    /\ reply.kind = "resolved"
    /\ reply.response.text \in kinds

\* C5 as stated: analyzeStocks never returns an empty list, and never returns
\* a list holding something that is no record.
C5_NeverEmptyOrMalformed ==
    returned.kind = "value" =>
        /\ returned.value # <<>>
        /\ \A i \in 1..Len(returned.value) : returned.value[i].stock # "{}"

\* C5 amended: analyzeStocks fails when the response has no text, when the
\* text does not parse and when the parsed value has no results array, and it
\* fails with a non-empty message; otherwise it returns one result for each
\* element of the results array, in order, also when the array is empty and
\* whatever the elements are.
C5_FailsOrReturnsOnePerElement ==
    /\ ResolvedWith(TextKinds \ {"results_array"}) =>
          /\ returned.kind = "throw"
          /\ Truthy(returned.message)
    /\ ResolvedWith({"results_array"}) =>
          /\ returned.kind = "value"
          /\ Len(returned.value) = Len(reply.response.results)
          /\ \A i \in 1..Len(returned.value) :
                returned.value[i].stock \in {reply.response.results[i], "{}"}

\* C5 witness: the remote service answered with an empty results array and
\* analyzeStocks returned the empty list.
C5_Witness ==
    /\ ResolvedWith({"results_array"})
    /\ reply.response.results = <<>>
    /\ returned = Value(<<>>)

InFailed == ~state.loading /\ state.error # Null /\ state.data.null

\* C6: when the request resolves with an empty list the cycle ends in Failed
\* and nothing is scheduled that would show Success; data is never the empty
\* list, and no pending completion holds one.
C6_EmptyListFails ==
    /\ (mounted /\ AnalyzeReturned /\ returned.value = <<>>) =>
          (InFailed /\ state.error = MsgNoData /\ timeouts = {})
    /\ (~state.data.null => state.data.list # <<>>)
    /\ \A t \in timeouts : t.results # <<>>

\* C6 witness: analyzeStocks returned the empty list to a mounted component.
C6_Witness ==
    /\ mounted
    /\ AnalyzeReturned
    /\ returned.value = <<>>
    /\ state.error = MsgNoData

Unusable == {"unparseable", "null", "no_results", "results_not_array"}

\* C7: when the payload does not parse as JSON, or parses without a results
\* array, analyzeStocks fails and the cycle ends in Failed with a non-empty
\* message and no data, and no completion is scheduled; data is only ever
\* populated in a cycle whose response held a results array.
C7_MalformedFails ==
    /\ ResolvedWith(Unusable) => (returned.kind = "throw" /\ timeouts = {})
    /\ (mounted /\ ResolvedWith(Unusable)) =>
          (InFailed /\ state.error # "" /\ state.error = returned.message)
    /\ (~state.data.null =>
          (reply.kind = "resolved" /\ reply.response.text = "results_array"))

\* C7 witness: the payload parsed to an object without a results member and
\* the cycle ended in Failed.
C7_Witness ==
    /\ mounted
    /\ ResolvedWith({"no_results"})
    /\ InFailed

-----------------------------------------------------------------------------
\* the positions of the chunks that carry a usable link
UsableIndexes(chunks) ==
    {i \in 1..Len(chunks) : chunks[i].uri \notin {Undefined, "", "#"}}

\* the position of the k-th chunk that carries a usable link
NthUsable(chunks, k) ==
    CHOOSE i \in UsableIndexes(chunks) :
        Cardinality({j \in UsableIndexes(chunks) : j < i}) = k - 1

\* the citation list the documentation describes
ExpectedSources(response) ==
    IF ~response.hasGrounding THEN <<>>
    ELSE LET chunks == response.groundingChunks
             n == Cardinality(UsableIndexes(chunks))
         IN [k \in 1..(IF n < 5 THEN n ELSE 5) |->
                LET c == chunks[NthUsable(chunks, k)]
                IN [title |-> IF c.title \in {Undefined, ""} THEN "Market Source"
                                                             ELSE c.title,
                    uri |-> c.uri]]

\* C8: every result analyzeStocks returns, and every result shown, carries
\* the same sources list: the chunks with a usable link, in their order, cut
\* to the first 5, an absent title replaced by "Market Source"; the list is
\* empty without grounding metadata.
C8_SharedSourcesCappedAtFive ==
    /\ ResolvedWith({"results_array"}) =>
          \A i \in 1..Len(returned.value) :
              returned.value[i].sources = ExpectedSources(reply.response)
    /\ ~state.data.null =>
          \A i \in 1..Len(state.data.list) :
              state.data.list[i].sources = ExpectedSources(reply.response)

\* C8 witness: six chunks with a usable link, the first of them untitled, and
\* two results that each carry the first five.
C8_Witness ==
    /\ ResolvedWith({"results_array"})
    /\ Cardinality(UsableIndexes(reply.response.groundingChunks)) = 6
    /\ reply.response.groundingChunks[1] = ChunkUntitled
    /\ reply.response.groundingChunks[6] = ChunkReuters
    /\ Len(returned.value) = 2
    /\ Len(returned.value[2].sources) = 5
    /\ returned.value[2].sources[1].title = "Market Source"

\* the places where a token starts: a character that is no comma and no
\* whitespace, at the start of the text or after a comma or whitespace
TokenStarts(s) ==
    {i \in 1..Len(s) : s[i] \notin {",", " ", "\t"}
                        /\ (i = 1 \/ s[i - 1] \in {",", " ", "\t"})}

\* the last character of the token that starts at i
TokenEnd(s, i) ==
    CHOOSE j \in i..Len(s) :
        /\ \A k \in i..j : s[k] \notin {",", " ", "\t"}
        /\ (j = Len(s) \/ s[j + 1] \in {",", " ", "\t"})

\* the tokens of the text in their order, uppercased, duplicates kept
Tokens(s) ==
    [k \in 1..Cardinality(TokenStarts(s)) |->
        LET i == CHOOSE i \in TokenStarts(s) :
                    Cardinality({j \in TokenStarts(s) : j < i}) = k - 1
        IN ToUpperCase(SubSeq(s, i, TokenEnd(s, i)))]

\* C9: the ticker list passed to analyzeStocks is the list of the input's
\* tokens (the text between runs of commas and whitespace), uppercased, in
\* order, duplicates kept and none empty; a submit made while nothing is
\* loading is accepted exactly when the input has a token.
C9_TickersAreTokens ==
    /\ \A r \in requests :
          /\ r.tickers = Tokens(input)
          /\ \A k \in 1..Len(r.tickers) : r.tickers[k] # <<>>
    /\ lastEvent.name = "submit" /\ ~lastEvent.wasLoading =>
          (lastEvent.accepted <=> Tokens(input) # <<>>)
    /\ lastEvent.name = "submit" /\ lastEvent.accepted => requests # {}

\* C9 witness: " aapl,  nvda ,tsla" was submitted and AAPL, NVDA, TSLA passed.
C9_Witness ==
    /\ input = ExampleInput
    /\ requests = {[id |-> 1,
                    tickers |-> << <<"A", "A", "P", "L">>, <<"N", "V", "D", "A">>,
                                   <<"T", "S", "L", "A">> >>]}

\* C10: a submit of blank or whitespace-only input changes no field of the
\* state record, issues no request, starts no timer and schedules nothing.
C10_BlankSubmitIsNoOp ==
    [][(lastEvent'.name = "submit" /\ Trim(input) = <<>>) =>
          /\ ~lastEvent'.accepted
          /\ UNCHANGED <<input, state, progressInterval, timers, requests, timeouts,
                         calls, dataFrom>>]_vars

\* C10 witness: whitespace-only input was submitted while the error of a
\* failed cycle was showing, and the state kept it.
C10_Witness ==
    /\ lastEvent = [name |-> "submit", accepted |-> FALSE, wasLoading |-> FALSE]
    /\ input = Str_blank
    /\ calls = 1
    /\ InFailed

\* the stock the dashboard shows
ActiveStock == state.data.list[dashboard.activeIndex + 1].stock

MatrixShowsNA == dashboard.dcfInfo.text = TextDcfNA /\ dashboard.dcfInfo.figures = <<>>
TileShowsNA == dashboard.dcfTile.text = TextTileNA /\ dashboard.dcfTile.figures = <<>>

\* C11 as stated: the matrix row and the DCF Intrinsic tile show "N/A", and no
\* dollar or percentage figure, if and only if dcfIntrinsicValue is 0.
C11_UnavailableIffZero ==
    dashboard.shown =>
        /\ MatrixShowsNA <=> ActiveStock.quality.dcfIntrinsicValue = Number(0)
        /\ TileShowsNA <=> ActiveStock.quality.dcfIntrinsicValue = Number(0)

\* C11, amended: the matrix row and the DCF Intrinsic tile show "N/A", and no
\* dollar or percentage figure, if and only if dcfIntrinsicValue is not a
\* number greater than 0 (it is 0, negative or absent), whatever the margin of
\* safety is; otherwise both show the intrinsic value to the cent and the row
\* also the margin as a percentage.  A result with both fields 0 shows "N/A"
\* in both places.
C11_UnavailableIffNotPositive ==
    dashboard.shown =>
        LET v == ActiveStock.quality.dcfIntrinsicValue
            m == ActiveStock.quality.dcfMarginOfSafety
            positive == v.defined /\ v.milli > 0
        IN  /\ MatrixShowsNA <=> ~positive
            /\ TileShowsNA <=> ~positive
            /\ positive =>
                  /\ dashboard.dcfInfo.text = TextDcfFigures
                  /\ dashboard.dcfTile.text = TextTileFigure
                  /\ Len(dashboard.dcfInfo.figures) = 2
                  /\ dashboard.dcfTile.figures = <<dashboard.dcfInfo.figures[1]>>
                  /\ 10 * dashboard.dcfInfo.figures[1] - v.milli \in -5..5
                  /\ dashboard.dcfInfo.figures[2] = m.milli
            /\ (v = Number(0) /\ m = Number(0)) => MatrixShowsNA /\ TileShowsNA

\* the second stock of a list is shown and has both DCF fields 0
C11_Witness ==
    /\ dashboard.shown
    /\ dashboard.activeIndex = 1
    /\ ActiveStock.quality = [dcfIntrinsicValue |-> Number(0), dcfMarginOfSafety |-> Number(0)]
    /\ MatrixShowsNA /\ TileShowsNA

-----------------------------------------------------------------------------
ResolvedNonEmpty == AnalyzeReturned /\ returned.value # <<>>

\* the states of a resolution with a non-empty list
FinishThenSuccess ==
    /\ (mounted /\ ResolvedNonEmpty) =>
          /\ timers = {}
          /\ state = [loading |-> TRUE, progress |-> Milli(100), error |-> Null,
                      data |-> NullData, step |-> "processing"]
          /\ \E t \in timeouts :
                /\ timeouts = {t}
                /\ t.results = returned.value
                /\ t.due = now + 400
    /\ (mounted /\ timeouts # {}) =>
          (state.loading /\ state.progress = Milli(100) /\ state.data.null)
    /\ (mounted /\ lastEvent.name = "timeout") =>
          /\ returned.kind = "value" /\ returned.value # <<>>
          /\ state = [loading |-> FALSE, progress |-> Milli(100), error |-> Null,
                      data |-> DataOf(returned.value), step |-> "idle"]
    /\ ~state.data.null => (~state.loading /\ state.progress = Milli(100))

\* the step that populates data
DataPopulated ==
    (state.data.null /\ ~state'.data.null) =>
        /\ lastEvent'.name = "timeout"
        /\ state.loading /\ state.progress = Milli(100)
        /\ \E t \in timeouts : timeouts' = timeouts \ {t} /\ now >= t.due

\* C12: when the request resolves with a non-empty list, the progress timer
\* is stopped and progress is 100 while loading is still true and data still
\* null, and this lasts while the completion is pending; the completion is
\* due the fixed delay after that, and data becomes non-null only in the step
\* that runs it, not before it is due, giving Success with loading false,
\* progress 100, error null, step idle and data the returned list.  No state
\* with data non-null has loading true or progress other than 100.
C12_FinishThenSuccess == []FinishThenSuccess /\ [][DataPopulated]_vars

\* C12 witness: the completion has run after the delay and the state is
\* Success with the two results returned.
C12_Witness ==
    /\ mounted
    /\ lastEvent.name = "timeout"
    /\ Len(returned.value) = 2
    /\ state.data = DataOf(returned.value)
    /\ ~state.loading /\ state.progress = Milli(100)

-----------------------------------------------------------------------------
AnalyzeThrew == lastEvent.name = "settle" /\ returned.kind = "throw"

\* the states of a rejection
RejectionFails ==
    /\ AnalyzeThrew =>
          /\ timers = {}
          /\ requests = {}
          /\ timeouts = {}
          /\ reply.kind = "rejected" => returned.message = reply.message
    /\ (mounted /\ AnalyzeThrew) =>
          state = [loading |-> FALSE, progress |-> 0,
                   error |-> IF returned.message \in {Undefined, Null, ""}
                             THEN "Financial analysis engine encountered an error. Please verify the tickers."
                             ELSE returned.message,
                   data |-> NullData, step |-> "idle"]

\* a request is issued only by an accepted submit, one per submit
NoRetry ==
    /\ lastEvent'.name = "settle" => (calls' = calls /\ requests' \subseteq requests)
    /\ (calls' # calls \/ ~(requests' \subseteq requests)) =>
          /\ lastEvent'.name = "submit" /\ lastEvent'.accepted
          /\ calls' = calls + 1
          /\ Cardinality(requests') = Cardinality(requests) + 1

\* C13: when the request rejects, the progress timer is stopped and the state
\* becomes Failed with loading false, progress 0, data null, step idle and
\* error the message of the rejection as it is, or the generic fallback
\* message when the rejection carries none; the handler ends there: no
\* completion is pending, and no request is issued other than by a later
\* accepted submit.
C13_RejectionFails == []RejectionFails /\ [][NoRetry]_vars

\* C13 witness: the remote call was rejected without a message and the
\* cycle ended in Failed with the fallback message.
C13_Witness ==
    /\ mounted
    /\ AnalyzeThrew
    /\ reply = Rejected(Undefined)
    /\ state.error = MsgFallback
    /\ ~state.loading

-----------------------------------------------------------------------------
\* C14 as stated: a response without text and a response whose text does not
\* parse to an object with a results array both end in Failed with the
\* generic engine-error message.
C14_SameGenericMessage ==
    (mounted /\ ResolvedWith({"absent"} \cup Unusable)) =>
        (InFailed /\ state.error = MsgFallback)

\* C14, amended: a response without text ends in Failed with the message
\* "Empty response from AI"; a response whose text does not parse, or parses
\* without a results array, ends in Failed with the message of the error
\* that JSON.parse or the access to the results raised.  Neither is the
\* generic engine-error message and the two differ, so the two cases can be
\* told apart from the error shown.
C14_MessagesDiffer ==
    /\ (mounted /\ ResolvedWith({"absent"})) =>
          (InFailed /\ state.error = "Empty response from AI")
    /\ (mounted /\ ResolvedWith(Unusable)) =>
          /\ InFailed
          /\ state.error = ParseMessage(reply.response.text)
          /\ state.error \notin
                {"Empty response from AI",
                 "Financial analysis engine encountered an error. Please verify the tickers."}

\* C14 witness: the text of the response did not parse and the cycle ended
\* in Failed with the parser's message.
C14_Witness ==
    /\ mounted
    /\ ResolvedWith({"unparseable"})
    /\ InFailed
    /\ state.error = MsgSyntaxError

-----------------------------------------------------------------------------
\* the step of a dismissal
DismissStep ==
    lastEvent'.name = "dismiss" =>
        /\ state.error # Null
        /\ state'.error = Null
        /\ state'.loading = state.loading
        /\ state'.progress = state.progress
        /\ state'.data = state.data
        /\ state'.step = state.step
        /\ UNCHANGED <<input, progressInterval, timers, requests, timeouts, calls>>

\* C15: dismissing the error sets error to null and leaves loading, progress,
\* data and step as they are; it issues no request and touches no timer; the
\* state after a dismissal is the initial idle state: loading false,
\* progress 0, error null, data null, step idle.
C15_DismissOnlyClearsError ==
    /\ [][DismissStep]_vars
    /\ [](lastEvent.name = "dismiss" =>
            state = [loading |-> FALSE, progress |-> 0, error |-> Null,
                     data |-> NullData, step |-> "idle"])

\* C15 witness: the error of a failed cycle has been dismissed.
C15_Witness ==
    /\ lastEvent.name = "dismiss"
    /\ calls = 1
    /\ returned.kind = "throw"
    /\ state = IdleState

-----------------------------------------------------------------------------
\* the step of a progress tick
TickStep ==
    lastEvent'.name = "tick" =>
        /\ state'.loading = state.loading
        /\ state'.error = state.error
        /\ state'.data = state.data
        /\ state'.step = state.step
        /\ state'.progress >= state.progress
        /\ UNCHANGED <<input, progressInterval, timers, requests, timeouts, calls>>

\* the steps that end a Processing episode
EpisodeEnds ==
    ((state.loading /\ ~state'.loading)
       \/ (state.step = "processing" /\ state'.step # "processing")) =>
        \/ lastEvent'.name = "settle" /\ requests' # requests
        \/ lastEvent'.name = "timeout" /\ timeouts' # timeouts

\* C16: a progress tick changes no field other than progress; while the
\* request has neither resolved nor rejected the state stays loading with
\* step processing, error and data null and progress between 5 and 95,
\* however many ticks run and however much time passes; loading and step
\* change only in the step in which the request settles or in the step of
\* the completion scheduled by it.
C16_OnlyCompletionEndsProcessing ==
    /\ [][TickStep]_vars
    /\ [][EpisodeEnds]_vars
    /\ [](requests # {} =>
            /\ state.loading /\ state.step = "processing"
            /\ state.error = Null /\ state.data.null
            /\ state.progress >= Milli(5) /\ state.progress <= Milli(95))

\* C16 witness: more than twice the estimated duration after the submit a
\* tick has run, the request is still in flight and the state is Processing
\* at the cap.
C16_Witness ==
    /\ mounted
    /\ lastEvent.name = "tick"
    /\ now = 22000
    /\ \E r \in requests : \E t \in timers : t.id = r.id /\ now - t.startTime > 2 * Duration
    /\ state = [loading |-> TRUE, progress |-> Milli(95), error |-> Null,
                data |-> NullData, step |-> "processing"]

====
